---- MODULE Spec2Model ----
(***************************************************************************)
(* Model of trainer.py: the generation driver (train, run_generation) and  *)
(* the worker threads (trainer_thread) that share a queue of players, a    *)
(* lock around the two gets, and a quit event.                             *)
(*                                                                         *)
(* Every statement that reads or writes shared state (the queue, the lock, *)
(* the quit event, a player's elo) is a step of its own, so the driver and *)
(* the workers interleave as the threads of the program do.                *)
(***************************************************************************)
EXTENDS Integers, Sequences, FiniteSets, TLC

\* Bounds of the model: the arguments train is called with are drawn from
\* 1..MaxPop, 1..MaxThreads, 1..MaxGen, 1..MaxSub and {0/FracDen, ..., FracDen/FracDen},
\* and a run puts at most MaxPuts players on the queue
\* (population_size * generations * sub_generations).
MaxPop == 4
MaxThreads == 2
MaxGen == 2
MaxSub == 2
FracDen == 2
MaxPuts == 4
\* The runs checked for termination have at most MaxLoad = population_size *
\* threads.
MaxLoad == 4
\* trainer_thread on its own is run on queues of at most MaxQueue players.
MaxQueue == 4

VARIABLES
    population_size,   \* train's arguments (fixed after Init)
    fraction_num,      \* fraction_kept = fraction_num / FracDen
    generations,
    sub_generations,
    threads,
    dpc,               \* position of the driver (the thread that called train)
    err,               \* exception raised in train: "none" or its name
    bound,             \* names bound in train's frame (objects already constructed)
    quit_event,        \* Event: is_set()
    queue_lock,        \* Lock: 0 = free, w = held by worker w
    player_queue,      \* Queue: sequence of players, head first
    players,           \* the population list
    agents,            \* the NNPlayer objects: id |-> [elo, origin, parent]
    live_threads,      \* number of threads started and appended
    generation,        \* loop variable of line 98 (iterations begun)
    sub_generation,    \* loop variable of line 53 (iterations begun)
    put_idx,           \* position of the for loop of line 55
    i,                 \* the counter of line 103
    join_idx,          \* position of the for loop of line 114
    wpc,               \* position of each worker
    player_one,        \* each worker's local player_one (0 = unbound)
    player_two,        \* each worker's local player_two (0 = unbound)
    \* history of the run, read by the properties only
    survivors,         \* the list kept by line 102 in the current generation
    born,              \* number of NNPlayer objects constructed before line 104
    touched,           \* id |-> elo updates since the current sub-generation began
    sub_removed,       \* players removed from the queue since it began
    sub_played,        \* matches completed since it began
    removed,           \* players removed from the queue, in total
    played,            \* matches completed, in total
    queue_sub,         \* for each queued player, the sub-generation that put it
    held_sub,          \* for each worker, the sub-generations of the players it holds
    busy_at_quit       \* the workers that were playing a match when the event was
                       \* set and have not tested the event since

cfgvars == <<population_size, fraction_num, generations, sub_generations, threads>>
drvvars == <<dpc, err, bound, players, live_threads, generation, sub_generation,
             put_idx, i, join_idx, survivors, born>>
wrkvars == <<wpc, player_one, player_two>>
tagvars == <<queue_sub, held_sub, busy_at_quit>>
histvars == <<touched, sub_removed, sub_played, removed, played, tagvars>>
vars == <<cfgvars, drvvars, wrkvars, histvars, quit_event, queue_lock,
          player_queue, agents>>

Workers == 1..threads

Range(s) == {s[k] : k \in 1..Len(s)}

\* NNPlayer(): a new object, elo 0, not derived from any other player.
NNPlayer(kind) == [elo |-> 0, origin |-> kind, parent |-> 0]

\* NNPlayer.copy() followed by mutate(): a new object with the parent's elo.
Copy(p) == [elo |-> agents[p].elo, origin |-> "clone", parent |-> p]

\* Queue.qsize()
qsize == Len(player_queue)

\* random.shuffle(players): any order of the same players.
Shuffles(s) ==
    {[k \in 1..Len(s) |-> s[f[k]]] :
        f \in {g \in [1..Len(s) -> 1..Len(s)] : \A a, b \in 1..Len(s) : g[a] = g[b] => a = b}}

\* list.sort(reverse=True) with NNPlayer's ordering by elo: descending, and
\* stable (players of equal elo keep their order).
RECURSIVE InsertDesc(_, _, _)
InsertDesc(x, s, e) ==
    IF s = <<>> THEN <<x>>
    ELSE IF e[Head(s)].elo >= e[x].elo THEN <<Head(s)>> \o InsertDesc(x, Tail(s), e)
    ELSE <<x>> \o s

RECURSIVE SortDesc(_, _)
SortDesc(s, e) ==
    IF s = <<>> THEN <<>>
    ELSE InsertDesc(s[Len(s)], SortDesc(SubSeq(s, 1, Len(s) - 1), e), e)

\* int(len(players) * fraction_kept)
Kept(n) == (n * fraction_num) \div FracDen

Init ==
    /\ population_size \in 1..MaxPop
    /\ fraction_num \in 0..FracDen
    /\ generations \in 1..MaxGen
    /\ sub_generations \in 1..MaxSub
    /\ threads \in 1..MaxThreads
    /\ population_size * generations * sub_generations <= MaxPuts
    /\ dpc = "validate"
    /\ err = "none"
    /\ bound = {}
    /\ quit_event = FALSE
    /\ queue_lock = 0
    /\ player_queue = <<>>
    /\ players = <<>>
    /\ agents = <<>>
    /\ live_threads = 0
    /\ generation = 0
    /\ sub_generation = 0
    /\ put_idx = 0
    /\ i = 0
    /\ join_idx = 0
    /\ wpc = [w \in Workers |-> "unstarted"]
    /\ player_one = [w \in Workers |-> 0]
    /\ player_two = [w \in Workers |-> 0]
    /\ survivors = <<>>
    /\ born = 0
    /\ touched = <<>>
    /\ sub_removed = 0
    /\ sub_played = 0
    /\ removed = 0
    /\ played = 0
    /\ queue_sub = <<>>
    /\ held_sub = [w \in Workers |-> <<>>]
    /\ busy_at_quit = {}


(***************************************************************************)
(* The driver: train and run_generation.                                   *)
(***************************************************************************)

\* Variant of Validate: the parity test is missing.
ValidateNoTest ==
    /\ dpc = "validate"
    /\ dpc' = "setup"
    /\ UNCHANGED <<cfgvars, err, bound, players, live_threads, generation,
                   sub_generation, put_idx, i, join_idx, survivors, born, wrkvars,
                   histvars, quit_event, queue_lock, player_queue, agents>>

\* Lines 83-84: an odd population size raises OddPopulationError.
Validate ==
    /\ dpc = "validate"
    /\ IF population_size % 2 # 0
         THEN /\ err' = "OddPopulationError"
              /\ dpc' = "raised"
         ELSE /\ err' = err
              /\ dpc' = "setup"
    /\ UNCHANGED <<cfgvars, bound, players, live_threads, generation, sub_generation,
                   put_idx, i, join_idx, survivors, born, wrkvars, histvars, quit_event,
                   queue_lock, player_queue, agents>>

\* Lines 86-91: the event, the lock, the first population, the thread list
\* and the queue are constructed.
Setup ==
    /\ dpc = "setup"
    /\ bound' = {"quit_event", "queue_lock", "players", "live_threads", "player_queue"}
    /\ quit_event' = FALSE
    /\ queue_lock' = 0
    /\ agents' = [k \in 1..population_size |-> NNPlayer("initial")]
    /\ players' = [k \in 1..population_size |-> k]
    /\ touched' = [k \in 1..population_size |-> 0]
    /\ live_threads' = 0
    /\ player_queue' = <<>>
    /\ dpc' = "spawn"
    /\ UNCHANGED <<cfgvars, err, generation, sub_generation, put_idx, i, join_idx,
                   survivors, born, wrkvars, sub_removed, sub_played, removed, played,
                   tagvars>>

\* Lines 92-96: one iteration starts one worker and appends it.
StartThread ==
    /\ dpc = "spawn"
    /\ live_threads < threads
    /\ wpc' = [wpc EXCEPT ![live_threads + 1] = "outer"]
    /\ live_threads' = live_threads + 1
    /\ dpc' = IF live_threads + 1 = threads THEN "gen" ELSE "spawn"
    /\ UNCHANGED <<cfgvars, err, bound, players, generation, sub_generation, put_idx,
                   i, join_idx, survivors, born, player_one, player_two, histvars,
                   quit_event, queue_lock, player_queue, agents>>

\* Lines 98-100: the head of the generation loop; after the last generation
\* control falls into the finally block.
GenLoop ==
    /\ dpc = "gen"
    /\ IF generation < generations
         THEN /\ generation' = generation + 1
              /\ sub_generation' = 0
              /\ dpc' = "sub"
         ELSE /\ UNCHANGED <<generation, sub_generation>>
              /\ dpc' = "finally"
    /\ UNCHANGED <<cfgvars, err, bound, players, live_threads, put_idx, i, join_idx,
                   survivors, born, wrkvars, histvars, quit_event, queue_lock,
                   player_queue, agents>>

\* Lines 53-54: a sub-generation begins with a shuffle of the population.
Shuffle ==
    /\ dpc = "sub"
    /\ sub_generation < sub_generations
    /\ sub_generation' = sub_generation + 1
    /\ players' \in Shuffles(players)
    /\ put_idx' = 1
    /\ dpc' = "put"
    /\ touched' = [k \in DOMAIN touched |-> 0]
    /\ sub_removed' = 0
    /\ sub_played' = 0
    /\ UNCHANGED <<cfgvars, err, bound, live_threads, generation, i, join_idx,
                   survivors, born, wrkvars, removed, played, tagvars, quit_event,
                   queue_lock, player_queue, agents>>

\* The number of the sub-generation being run, counted over the whole run.
SubGenNumber == (generation - 1) * sub_generations + sub_generation

\* Lines 55-56: one player is put on the queue.
Put ==
    /\ dpc = "put"
    /\ player_queue' = Append(player_queue, players[put_idx])
    /\ queue_sub' = Append(queue_sub, SubGenNumber)
    /\ put_idx' = IF put_idx = Len(players) THEN 0 ELSE put_idx + 1
    /\ dpc' = IF put_idx = Len(players) THEN "wait" ELSE "put"
    /\ UNCHANGED <<cfgvars, err, bound, players, live_threads, generation,
                   sub_generation, i, join_idx, survivors, born, wrkvars, touched,
                   sub_removed, sub_played, removed, played, held_sub, busy_at_quit,
                   quit_event, queue_lock, agents>>

\* Variant of Poll: the driver does not wait for the queue.
PollNoWait ==
    /\ dpc = "wait"
    /\ dpc' = "sub"
    /\ UNCHANGED <<cfgvars, err, bound, players, live_threads, generation,
                   sub_generation, put_idx, i, join_idx, survivors, born, wrkvars,
                   histvars, quit_event, queue_lock, player_queue, agents>>

\* Lines 58-59: the driver spins while the queue holds more than one player.
Poll ==
    /\ dpc = "wait"
    /\ ~(qsize > 1)
    /\ dpc' = "sub"
    /\ UNCHANGED <<cfgvars, err, bound, players, live_threads, generation,
                   sub_generation, put_idx, i, join_idx, survivors, born, wrkvars,
                   histvars, quit_event, queue_lock, player_queue, agents>>

\* Lines 53 and 60: after the last sub-generation run_generation returns.
ReturnPlayers ==
    /\ dpc = "sub"
    /\ sub_generation = sub_generations
    /\ dpc' = "sort"
    /\ UNCHANGED <<cfgvars, err, bound, players, live_threads, generation,
                   sub_generation, put_idx, i, join_idx, survivors, born, wrkvars,
                   histvars, quit_event, queue_lock, player_queue, agents>>

\* Line 101: players.sort(reverse=True)
Sort ==
    /\ dpc = "sort"
    /\ players' = SortDesc(players, agents)
    /\ dpc' = "truncate"
    /\ UNCHANGED <<cfgvars, err, bound, live_threads, generation, sub_generation,
                   put_idx, i, join_idx, survivors, born, wrkvars, histvars, quit_event,
                   queue_lock, player_queue, agents>>

\* Lines 102-103: the head of the list is kept and i is set to 0.
Truncate ==
    /\ dpc = "truncate"
    /\ players' = SubSeq(players, 1, Kept(Len(players)))
    /\ survivors' = players'
    /\ born' = Len(agents)
    /\ i' = 0
    /\ dpc' = "repro"
    /\ UNCHANGED <<cfgvars, err, bound, live_threads, generation, sub_generation,
                   put_idx, join_idx, wrkvars, histvars, quit_event, queue_lock,
                   player_queue, agents>>

\* Lines 104-111: one iteration of the while loop appends one new player.
\* choice(players) raises IndexError on an empty list, which leaves the try
\* block for the finally block. No statement of the loop assigns i.
Reproduce ==
    /\ dpc = "repro"
    /\ IF Len(players) < population_size
         THEN IF i % 2 = 0
                THEN IF players = <<>>
                       THEN /\ err' = "IndexError"
                            /\ dpc' = "finally"
                            /\ UNCHANGED <<players, agents, touched>>
                       ELSE /\ \E p \in Range(players) :
                                  agents' = Append(agents, Copy(p))
                            /\ players' = Append(players, Len(agents) + 1)
                            /\ touched' = Append(touched, 0)
                            /\ UNCHANGED <<err, dpc>>
                ELSE /\ agents' = Append(agents, NNPlayer("fresh"))
                     /\ players' = Append(players, Len(agents) + 1)
                     /\ touched' = Append(touched, 0)
                     /\ UNCHANGED <<err, dpc>>
         ELSE /\ dpc' = "gen"
              /\ UNCHANGED <<err, players, agents, touched>>
    /\ UNCHANGED <<cfgvars, bound, live_threads, generation, sub_generation, put_idx,
                   i, join_idx, survivors, born, wrkvars, sub_removed, sub_played, removed,
                   played, tagvars, quit_event, queue_lock, player_queue>>

\* Line 113: quit_event.set()
Finally ==
    /\ dpc = "finally"
    /\ quit_event' = TRUE
    /\ busy_at_quit' = {w \in Workers : wpc[w] = "play"}
    /\ join_idx' = 1
    /\ dpc' = "join"
    /\ UNCHANGED <<cfgvars, err, bound, players, live_threads, generation,
                   sub_generation, put_idx, i, survivors, born, wrkvars, touched,
                   sub_removed, sub_played, removed, played, queue_sub, held_sub,
                   queue_lock, player_queue, agents>>

\* Variant of Join: the loop passes a thread without waiting for it.
JoinNoWait ==
    /\ dpc = "join"
    /\ join_idx <= live_threads
    /\ join_idx' = join_idx + 1
    /\ UNCHANGED <<cfgvars, dpc, err, bound, players, live_threads, generation,
                   sub_generation, put_idx, i, survivors, born, wrkvars, histvars,
                   quit_event, queue_lock, player_queue, agents>>

\* Lines 114-115: thread.join() returns once that thread has terminated,
\* by returning ("done") or by an uncaught exception ("failed").
Join ==
    /\ dpc = "join"
    /\ join_idx <= live_threads
    /\ wpc[join_idx] \in {"done", "failed"}
    /\ join_idx' = join_idx + 1
    /\ UNCHANGED <<cfgvars, dpc, err, bound, players, live_threads, generation,
                   sub_generation, put_idx, i, survivors, born, wrkvars, histvars,
                   quit_event, queue_lock, player_queue, agents>>

\* Variant of Return: the finally block ends without a return statement, so
\* a pending exception goes on to the caller.
ReturnReraise ==
    /\ dpc = "join"
    /\ join_idx > live_threads
    /\ dpc' = IF err = "none" THEN "returned" ELSE "raised"
    /\ UNCHANGED <<cfgvars, err, bound, players, live_threads, generation,
                   sub_generation, put_idx, i, join_idx, survivors, born, wrkvars,
                   histvars, quit_event, queue_lock, player_queue, agents>>

\* Line 116: the return inside finally discards a pending exception.
Return ==
    /\ dpc = "join"
    /\ join_idx > live_threads
    /\ err' = "none"
    /\ dpc' = "returned"
    /\ UNCHANGED <<cfgvars, bound, players, live_threads, generation, sub_generation,
                   put_idx, i, join_idx, survivors, born, wrkvars, histvars, quit_event,
                   queue_lock, player_queue, agents>>

(***************************************************************************)
(* The workers: trainer_thread.                                            *)
(***************************************************************************)

\* Lines 27, 36-37: the outer loop tests the quit event.
CheckQuit(w) ==
    /\ wpc[w] = "outer"
    /\ wpc' = [wpc EXCEPT ![w] = IF quit_event THEN "done" ELSE "inner"]
    /\ busy_at_quit' = busy_at_quit \ {w}
    /\ UNCHANGED <<cfgvars, drvvars, player_one, player_two, touched, sub_removed,
                   sub_played, removed, played, queue_sub, held_sub, quit_event,
                   queue_lock, player_queue, agents>>

\* Line 28: the inner loop tests the queue size without the lock.
CheckQueue(w) ==
    /\ wpc[w] = "inner"
    /\ wpc' = [wpc EXCEPT ![w] = IF qsize > 1 THEN "lock" ELSE "outer"]
    /\ UNCHANGED <<cfgvars, drvvars, player_one, player_two, histvars, quit_event,
                   queue_lock, player_queue, agents>>

\* Variant of AcquireLock: the lock excludes nobody.
AcquireLockNoWait(w) ==
    /\ wpc[w] = "lock"
    /\ queue_lock' = w
    /\ wpc' = [wpc EXCEPT ![w] = "check"]
    /\ UNCHANGED <<cfgvars, drvvars, player_one, player_two, histvars, quit_event,
                   player_queue, agents>>

\* Line 29: with queue_lock (acquire).
AcquireLock(w) ==
    /\ wpc[w] = "lock"
    /\ queue_lock = 0
    /\ queue_lock' = w
    /\ wpc' = [wpc EXCEPT ![w] = "check"]
    /\ UNCHANGED <<cfgvars, drvvars, player_one, player_two, histvars, quit_event,
                   player_queue, agents>>

\* Variant of CheckUnderLock: break leaves the loop with the lock still held.
CheckUnderLockKeep(w) ==
    /\ wpc[w] = "check"
    /\ wpc' = [wpc EXCEPT ![w] = IF qsize < 2 THEN "outer" ELSE "get1"]
    /\ UNCHANGED <<cfgvars, drvvars, player_one, player_two, histvars, quit_event,
                   queue_lock, player_queue, agents>>

\* Lines 30-31: the size is tested again under the lock; break leaves the
\* with block (releasing the lock) and the inner loop.
CheckUnderLock(w) ==
    /\ wpc[w] = "check"
    /\ IF qsize < 2
         THEN /\ queue_lock' = 0
              /\ wpc' = [wpc EXCEPT ![w] = "outer"]
         ELSE /\ queue_lock' = queue_lock
              /\ wpc' = [wpc EXCEPT ![w] = "get1"]
    /\ UNCHANGED <<cfgvars, drvvars, player_one, player_two, histvars, quit_event,
                   player_queue, agents>>

\* Line 32: player_one = queue.get(), which blocks while the queue is empty.
GetOne(w) ==
    /\ wpc[w] = "get1"
    /\ qsize > 0
    /\ player_one' = [player_one EXCEPT ![w] = Head(player_queue)]
    /\ player_queue' = Tail(player_queue)
    /\ removed' = removed + 1
    /\ sub_removed' = sub_removed + 1
    /\ queue_sub' = Tail(queue_sub)
    /\ held_sub' = [held_sub EXCEPT ![w] = <<Head(queue_sub)>>]
    /\ wpc' = [wpc EXCEPT ![w] = "get2"]
    /\ UNCHANGED <<cfgvars, drvvars, player_two, touched, sub_played, played,
                   busy_at_quit, quit_event, queue_lock, agents>>

\* Line 33 and the end of the with block: player_two = queue.get(), then the
\* lock is released.
GetTwo(w) ==
    /\ wpc[w] = "get2"
    /\ qsize > 0
    /\ player_two' = [player_two EXCEPT ![w] = Head(player_queue)]
    /\ player_queue' = Tail(player_queue)
    /\ removed' = removed + 1
    /\ sub_removed' = sub_removed + 1
    /\ queue_lock' = 0
    /\ queue_sub' = Tail(queue_sub)
    /\ held_sub' = [held_sub EXCEPT ![w] = Append(@, Head(queue_sub))]
    /\ wpc' = [wpc EXCEPT ![w] = "play"]
    /\ UNCHANGED <<cfgvars, drvvars, player_one, touched, sub_played, played,
                   busy_at_quit, quit_event, agents>>

\* board.play() decides the match: player one wins, player two wins, or a draw.
Outcomes == {"one", "two", "draw"}

\* NNPlayer.update_elo: the winner gains a point and the loser loses one; a
\* draw leaves both ratings as they are.
update_elo(e, one, two, outcome) ==
    LET d == IF outcome = "one" THEN 1 ELSE IF outcome = "two" THEN -1 ELSE 0
        e1 == [e EXCEPT ![one].elo = @ + d]
    IN  [e1 EXCEPT ![two].elo = @ - d]

\* One more rating update recorded for each of the two players.
Touch(t, one, two) ==
    LET t1 == [t EXCEPT ![one] = @ + 1]
    IN  [t1 EXCEPT ![two] = @ + 1]

\* Lines 34-35: the match is played and both ratings are updated; control
\* returns to the inner loop's test. The two locals are dead from here to
\* their next assignment and are written as unbound.
PlayMatch(w) ==
    /\ wpc[w] = "play"
    /\ \E outcome \in Outcomes :
          agents' = update_elo(agents, player_one[w], player_two[w], outcome)
    /\ touched' = Touch(touched, player_one[w], player_two[w])
    /\ played' = played + 1
    /\ sub_played' = sub_played + 1
    /\ player_one' = [player_one EXCEPT ![w] = 0]
    /\ player_two' = [player_two EXCEPT ![w] = 0]
    /\ held_sub' = [held_sub EXCEPT ![w] = <<>>]
    /\ wpc' = [wpc EXCEPT ![w] = "inner"]
    /\ UNCHANGED <<cfgvars, drvvars, sub_removed, removed, queue_sub, busy_at_quit,
                   quit_event, queue_lock, player_queue>>

Driver ==
    \/ Validate
    \/ Setup
    \/ StartThread
    \/ GenLoop
    \/ Shuffle
    \/ Put
    \/ Poll
    \/ ReturnPlayers
    \/ Sort
    \/ Truncate
    \/ Reproduce
    \/ Finally
    \/ Join
    \/ Return

Worker(w) ==
    /\ w \in Workers
    /\ \/ CheckQuit(w)
       \/ CheckQueue(w)
       \/ AcquireLock(w)
       \/ CheckUnderLock(w)
       \/ GetOne(w)
       \/ GetTwo(w)
       \/ PlayMatch(w)

Next ==
    \/ Validate
    \/ Setup
    \/ StartThread
    \/ GenLoop
    \/ Shuffle
    \/ Put
    \/ Poll
    \/ ReturnPlayers
    \/ Sort
    \/ Truncate
    \/ Reproduce
    \/ Finally
    \/ Join
    \/ Return
    \/ \E w \in Workers : CheckQuit(w)
    \/ \E w \in Workers : CheckQueue(w)
    \/ \E w \in Workers : AcquireLock(w)
    \/ \E w \in Workers : CheckUnderLock(w)
    \/ \E w \in Workers : GetOne(w)
    \/ \E w \in Workers : GetTwo(w)
    \/ \E w \in Workers : PlayMatch(w)

Spec == Init /\ [][Next]_vars

\* Lines 34-35 when board.play() (or update_elo) raises: nothing in
\* trainer_thread catches the exception, so the thread ends with it; no
\* rating is updated and the two players are not put back.
MatchRaise(w) ==
    /\ wpc[w] = "play"
    /\ wpc' = [wpc EXCEPT ![w] = "failed"]
    /\ player_one' = [player_one EXCEPT ![w] = 0]
    /\ player_two' = [player_two EXCEPT ![w] = 0]
    /\ held_sub' = [held_sub EXCEPT ![w] = <<>>]
    /\ UNCHANGED <<cfgvars, drvvars, touched, sub_removed, sub_played, removed,
                   played, queue_sub, busy_at_quit, quit_event, queue_lock,
                   player_queue, agents>>

\* The program with a match engine that may raise.
NextErr ==
    \/ Next
    \/ \E w \in Workers : MatchRaise(w)

SpecErr == Init /\ [][NextErr]_vars

(***************************************************************************)
(* trainer_thread on its own: the workers run on a queue that already      *)
(* holds any number of players, and the holder of the event sets it at any *)
(* moment.                                                                 *)
(***************************************************************************)

ThreadInit ==
    /\ population_size \in 0..MaxQueue
    /\ fraction_num = 0
    /\ generations = 0
    /\ sub_generations = 0
    /\ threads \in 1..MaxThreads
    /\ dpc = "caller"
    /\ err = "none"
    /\ bound = {"quit_event", "queue_lock", "players", "live_threads", "player_queue"}
    /\ quit_event = FALSE
    /\ queue_lock = 0
    /\ player_queue = [k \in 1..population_size |-> k]
    /\ players = [k \in 1..population_size |-> k]
    /\ agents = [k \in 1..population_size |-> NNPlayer("initial")]
    /\ live_threads = threads
    /\ generation = 0
    /\ sub_generation = 0
    /\ put_idx = 0
    /\ i = 0
    /\ join_idx = 0
    /\ wpc = [w \in Workers |-> "outer"]
    /\ player_one = [w \in Workers |-> 0]
    /\ player_two = [w \in Workers |-> 0]
    /\ survivors = <<>>
    /\ born = 0
    /\ touched = [k \in 1..population_size |-> 0]
    /\ sub_removed = 0
    /\ sub_played = 0
    /\ removed = 0
    /\ played = 0
    /\ queue_sub = [k \in 1..population_size |-> 0]
    /\ held_sub = [w \in Workers |-> <<>>]
    /\ busy_at_quit = {}

\* quit_event.set(), called by whoever holds the event.
SetQuit ==
    /\ dpc = "caller"
    /\ ~quit_event
    /\ quit_event' = TRUE
    /\ busy_at_quit' = {w \in Workers : wpc[w] = "play"}
    /\ UNCHANGED <<cfgvars, drvvars, wrkvars, touched, sub_removed, sub_played,
                   removed, played, queue_sub, held_sub, queue_lock, player_queue,
                   agents>>

ThreadNext ==
    \/ SetQuit
    \/ \E w \in Workers : CheckQuit(w)
    \/ \E w \in Workers : CheckQueue(w)
    \/ \E w \in Workers : AcquireLock(w)
    \/ \E w \in Workers : CheckUnderLock(w)
    \/ \E w \in Workers : GetOne(w)
    \/ \E w \in Workers : GetTwo(w)
    \/ \E w \in Workers : PlayMatch(w)

ThreadSpec == ThreadInit /\ [][ThreadNext]_vars

\* The threads are scheduled fairly: the driver and every started worker keep
\* taking steps while they have one to take.
FairInit == Init /\ population_size * threads <= MaxLoad

FairSpec ==
    /\ FairInit
    /\ [][Next]_vars
    /\ WF_vars(Driver)
    /\ \A w \in 1..MaxThreads : WF_vars(Worker(w))


(***************************************************************************)
(* Properties.                                                             *)
(***************************************************************************)

\* The players worker w has taken from the queue for a match not yet finished.
Held(w) == {player_one[w], player_two[w]} \ {0}

\* A step by which the driver's polling loop of lines 58-59 exits.
PollExit == dpc = "wait" /\ dpc' = "sub"

\* C1: the pair-take is all-or-nothing. A worker about to take its first
\* player holds the lock and finds at least two players; a worker that holds
\* exactly one player holds the lock and finds a second one on the queue, so
\* its second get does not block; and outside the two gets the number of
\* players removed from the queue is even.
C1_PairTakeAtomic ==
    /\ \A w \in Workers :
          /\ wpc[w] = "get1" => queue_lock = w /\ qsize >= 2
          /\ Cardinality(Held(w)) = 1 =>
                wpc[w] = "get2" /\ queue_lock = w /\ qsize >= 1
          /\ wpc[w] \in {"outer", "inner", "lock", "check", "done"} => Held(w) = {}
    /\ (\A w \in Workers : wpc[w] # "get2") => removed % 2 = 0

\* C1 witness: two workers both saw more than one player on line 28; one of
\* them took the pair and the other finds fewer than two under the lock.
C1_Witness ==
    \E w1, w2 \in Workers :
        /\ wpc[w1] = "play"
        /\ wpc[w2] = "check"
        /\ qsize < 2

\* C2: when the driver's wait for a sub-generation ends, population_size / 2
\* matches of it have been completed and every player's rating has been
\* updated exactly once.
C2_SubGenerationPlayed ==
    [][PollExit =>
          /\ sub_played' = population_size \div 2
          /\ \A a \in Range(players') : touched'[a] = 1]_vars

\* C3: no player is held by two workers at once.
C3_NoSharedPlayer ==
    \A w1, w2 \in Workers : w1 # w2 => Held(w1) \cap Held(w2) = {}

\* C4: when the driver puts the first player of a sub-generation on the
\* queue, every match of the sub-generations before it has been completed:
\* no player is left on the queue and no worker holds a player.
C4_SubGenerationsOrdered ==
    [][(dpc = "put" /\ put_idx = 1 /\ player_queue' # player_queue) =>
          /\ player_queue = <<>>
          /\ \A w \in Workers : Held(w) = {}]_vars

\* C5: when the driver's polling loop exits the queue is empty and exactly
\* population_size players have been removed from it in this sub-generation.
C5_BoundaryQueueEmpty ==
    [][PollExit =>
          /\ player_queue' = <<>>
          /\ sub_removed' = population_size]_vars

\* C6: when train has returned, every worker has terminated, no worker holds
\* a player, and every pair taken from the queue has had its match completed.
C6_ShutdownLosesNoMatch ==
    dpc = "returned" =>
        /\ \A w \in Workers : wpc[w] = "done" /\ Held(w) = {}
        /\ removed = 2 * played

\* C6 witness: train has returned after matches were played.
C6_Witness ==
    /\ dpc = "returned"
    /\ played > 0
    /\ \A w \in Workers : wpc[w] = "done"

\* C7: with an odd population_size train ends with OddPopulationError and
\* nothing has been constructed: no event, lock, queue or player, and no
\* worker has been started.
C7_OddPopulationFailsFirst ==
    population_size % 2 # 0 =>
        /\ dpc \in {"validate", "raised"}
        /\ dpc = "raised" => err = "OddPopulationError"
        /\ bound = {}
        /\ agents = <<>>
        /\ players = <<>>
        /\ live_threads = 0
        /\ \A w \in Workers : wpc[w] = "unstarted"

\* C7 witness: train has raised for an odd population_size.
C7_Witness ==
    /\ population_size % 2 # 0
    /\ dpc = "raised"
    /\ err = "OddPopulationError"

\* C8: for an even population_size, under fair scheduling train eventually
\* returns and every worker has terminated.
C8_TrainTerminates ==
    population_size % 2 = 0 =>
        <>(dpc = "returned" /\ \A w \in Workers : wpc[w] = "done")

\* C8 witness: train has returned from a run of several workers in which all
\* generations were run and several matches were played.
C8_Witness ==
    /\ dpc = "returned"
    /\ threads > 1
    /\ generation = generations
    /\ Len(players) = population_size
    /\ played > 1

\* The reproduction step of the current generation is running or has ended
\* and the list has not been shuffled since.
InReproduction == dpc = "repro" \/ (dpc = "gen" /\ generation >= 1)

\* The players appended by the reproduction step so far, in order.
Replacements == SubSeq(players, Len(survivors) + 1, Len(players))

\* C9: the replacements alternate between a mutated clone and a brand-new
\* player: clone, fresh, clone, fresh, ...
C9_ReplacementsAlternate ==
    InReproduction =>
        \A k \in 1..Len(Replacements) :
            agents[Replacements[k]].origin = IF k % 2 = 1 THEN "clone" ELSE "fresh"

\* The reproduction step of a generation has ended, by leaving its loop or
\* by raising.
ReproductionOver == (dpc = "gen" /\ generation >= 1) \/ err = "IndexError"

\* C10: after the reproduction step the population has exactly
\* population_size players: the survivors kept by selection, followed only
\* by players constructed in that step.
C10_PopulationRestored ==
    ReproductionOver =>
        /\ Len(players) = population_size
        /\ SubSeq(players, 1, Len(survivors)) = survivors
        /\ \A k \in 1..Len(Replacements) : Replacements[k] > born

\* The list s is in descending order of the ratings in e.
Descending(s, e) ==
    \A j, k \in 1..Len(s) : j < k => e[s[j]].elo >= e[s[k]].elo

\* A step by which the selection of line 102 finishes.
SelectExit == dpc = "truncate" /\ dpc' = "repro"

\* C11: when selection finishes the list holds floor(P * fraction_kept)
\* players, each once, taken from the list before selection; none of the
\* players left out is rated higher than a player kept; and the list is in
\* descending order of the ratings the players have at that moment.
C11_SelectionKeepsBest ==
    [][SelectExit =>
          /\ Len(players') = Kept(population_size)
          /\ Range(players') \subseteq Range(players)
          /\ Cardinality(Range(players')) = Len(players')
          /\ \A a \in Range(players'), b \in Range(players) \ Range(players') :
                agents'[a].elo >= agents'[b].elo
          /\ Descending(players', agents')]_vars

\* C12: the list train returns holds exactly population_size players in
\* descending order of rating.
C12_ResultSorted ==
    dpc = "returned" =>
        /\ Len(players) = population_size
        /\ Descending(players, agents)

\* C13: a match that raises is not dropped silently: train does not return
\* normally when a worker's match has failed.
C13_MatchFailureSurfaces ==
    dpc = "returned" => \A w \in Workers : wpc[w] # "failed"

\* C14: selection and reproduction never run concurrently with a match:
\* while the driver sorts, truncates and reproduces, no worker holds a
\* player and no rating changes.
C14_SelectionNotConcurrent ==
    [][((dpc = "sort" /\ dpc' = "truncate") \/ dpc \in {"truncate", "repro"}) =>
          /\ \A w \in Workers : Held(w) = {}
          /\ \A a \in DOMAIN agents : agents'[a].elo = agents[a].elo]_vars

\* C15: every clone made by the reproduction step is a copy of a survivor
\* of this generation's selection.
C15_ClonesOfSurvivors ==
    InReproduction =>
        \A k \in 1..Len(Replacements) :
            agents[Replacements[k]].origin = "clone" =>
                agents[Replacements[k]].parent \in Range(survivors)

\* C16: the quit event is set only by the driver, only after the last
\* sub-generation of the last generation has been put and waited for, and
\* is never cleared; no worker terminates before it is set.
C16_QuitOnlyAtEnd ==
    /\ [](\A w \in Workers : wpc[w] = "done" => quit_event)
    /\ [][/\ quit_event => quit_event'
          /\ quit_event' # quit_event =>
                /\ dpc = "finally"
                /\ generation = generations
                /\ sub_generation = sub_generations]_vars

\* C17: a worker tests the quit event between every two matches: a worker
\* that was playing a match when the event was set takes no further player
\* from the queue before it has tested the event.
C17_QuitSeenBetweenMatches ==
    \A w \in busy_at_quit : wpc[w] # "get2"

\* C18: the two players of a match are two distinct players put on the
\* queue in the same sub-generation.
C18_PairDistinctSameSub ==
    \A w \in Workers :
        wpc[w] = "play" =>
            /\ player_one[w] # player_two[w]
            /\ held_sub[w][1] = held_sub[w][2]

\* C18 witness: a worker is between its two gets, the partner of the player
\* it holds is at the head of the queue, and the driver has already put a
\* player of the next sub-generation behind it.
C18_Witness ==
    \E w \in Workers :
        /\ wpc[w] = "get2"
        /\ Len(player_queue) >= 2
        /\ queue_sub[1] = held_sub[w][1]
        /\ queue_sub[2] > queue_sub[1]

C20_DriverErrorSwallowed ==
    /\ [](dpc = "raised" => live_threads = 0)
    /\ [][err = "IndexError" =>
             /\ dpc' \in {"finally", "join", "returned"}
             /\ players' = players
             /\ dpc' = "returned" =>
                   /\ err' = "none"
                   /\ quit_event
                   /\ \A w \in Workers : wpc[w] = "done"]_vars
    /\ (err = "IndexError") ~> (dpc = "returned" /\ err = "none")

\* C20 witness: train has returned normally with fewer than population_size
\* players.
C20_Witness ==
    /\ dpc = "returned"
    /\ err = "none"
    /\ Len(players) < population_size

====
